---- MODULE Spec2Model ----
(***************************************************************************)
(* Model of agreementbot/persistence.go: the Agreement records kept in the *)
(* "agreements" bucket of a bolt store, and the operations on them.        *)
(*                                                                         *)
(* A Go string is a byte string.  json.Marshal writes every string field   *)
(* coerced to valid UTF-8 (each invalid byte becomes U+FFFD), so a stored  *)
(* record is modelled by what Marshal produces, not by the value in        *)
(* memory.  bolt keys are the raw bytes of the string.                     *)
(***************************************************************************)
EXTENDS Integers, Sequences, FiniteSets, TLC

\* ------------------------------------------------------------------ bounds
\* largest value of the wall clock (seconds); time.Now().Unix() starts at 1
MaxClock == 2
\* number of operations the callers start in one behaviour of Spec
MaxCalls == 2
\* number of concurrently running callers (goroutines)
NumProcs == 2

Procs == 1..NumProcs

\* --------------------------------------------------------------- constants
AGREEMENTS == "agreements"
\* a second bucket, for records of other types written through PersistNew
OtherBucket == "other"
BucketNames == {AGREEMENTS, OtherBucket}

\* the byte string "\xff": not valid UTF-8
InvalidUtf8 == "<xFF>"
\* the string U+FFFD (bytes EF BF BD), the Unicode replacement rune
Replacement == "<U+FFFD>"
\* a string longer than bolt's MaxKeySize (32768 bytes)
LongKey == "<32769 bytes>"

\* strings whose bytes are a legal bolt key (non-empty, at most MaxKeySize)
Keys == {"a", Replacement, InvalidUtf8}

\* error results: the fmt.Errorf / errors.New values of the source, by kind
NoError == "nil"
InvalidArgument == "InvalidArgument"
DuplicateKey == "DuplicateKey"
NotFound == "NotFound"
AmbiguousRecord == "AmbiguousRecord"
CorruptRecord == "CorruptRecord"
UnknownBucket == "UnknownBucket"
SerializeFailed == "SerializeFailed"
WriteFailed == "WriteFailed"

\* the warnings of DeleteAgreement (glog.Errorf)
NoLog == "no warning"
AbsentLog == "record does not exist"
DeserializeLog == "error deserializing agreement"
ActiveIdLog == "deleting a record with an agreement id"

\* ---------------------------------------------------------------- encoding
\* encoding/json: a string is written coerced to valid UTF-8
Coerce(s) == IF s = InvalidUtf8 THEN Replacement ELSE s

\* the keys in the order of bolt's cursor (bytes.Compare):
\* "a" = 61  <  U+FFFD = EF BF BD  <  "\xff" = FF
KeyOrder == <<"a", Replacement, InvalidUtf8>>

Agreement(id, proto, inception, creation, proposal, url, checks) ==
    [CurrentAgreementId |-> id,
     AgreementProtocol |-> proto,
     AgreementInceptionTime |-> inception,
     AgreementCreationTime |-> creation,
     Proposal |-> proposal,
     DataVerificationURL |-> url,
     DisableDataVerificationChecks |-> checks]

\* var a Agreement: the zero value
ZeroAgreement == Agreement("", "", 0, 0, "", "", FALSE)

\* Values handed to PersistNew as record interface{}:
\*   [type |-> "Agreement", a |-> ...]   an Agreement (or a pointer to one)
\*   [type |-> "scalar"]                 a value whose JSON is not an object
\*   [type |-> "chan"]                   a value json.Marshal cannot encode
AgreementValue(a) == [type |-> "Agreement", a |-> a]
ScalarValue == [type |-> "scalar", a |-> ZeroAgreement]
ChanValue == [type |-> "chan", a |-> ZeroAgreement]

\* stored bytes: b.Get returns nil for a missing key
NilBytes == [kind |-> "nil", a |-> ZeroAgreement]
ScalarBytes == [kind |-> "scalar", a |-> ZeroAgreement]

\* json.Marshal of an Agreement: every string field coerced to valid UTF-8
MarshalAgreement(a) ==
    [kind |-> "object",
     a |-> Agreement(Coerce(a.CurrentAgreementId),
                     Coerce(a.AgreementProtocol),
                     a.AgreementInceptionTime,
                     a.AgreementCreationTime,
                     Coerce(a.Proposal),
                     Coerce(a.DataVerificationURL),
                     a.DisableDataVerificationChecks)]

\* json.Marshal(record): [err, bytes]
Marshal(v) ==
    CASE v.type = "Agreement" -> [err |-> FALSE, bytes |-> MarshalAgreement(v.a)]
      [] v.type = "scalar" -> [err |-> FALSE, bytes |-> ScalarBytes]
      [] v.type = "chan" -> [err |-> TRUE, bytes |-> NilBytes]

\* json.Unmarshal(bytes, &a) into a zero Agreement: [err, a]
Unmarshal(bytes) ==
    IF bytes.kind = "object"
    THEN [err |-> FALSE, a |-> bytes.a]
    ELSE [err |-> TRUE, a |-> ZeroAgreement]

\* ------------------------------------------------------------------- state
VARIABLES
    db,       \* db[b] = [exists, kv]: bucket b of the bolt file
    clock,    \* time.Now().Unix()
    pc,       \* pc[p]: where caller p is
    local,    \* local[p]: the locals of caller p's running operation
    last,     \* the operation that returned last, and what it returned
    budget,   \* number of operations the callers may still start
    hist      \* history: which kinds of write have ever committed

vars == <<db, clock, pc, local, last, budget, hist>>

EmptyKV == [k \in Keys |-> NilBytes]
NoBucket == [exists |-> FALSE, kv |-> EmptyKV]

IdleLocal ==
    [id |-> "", base |-> ZeroAgreement, rec |-> ZeroAgreement, made |-> FALSE,
     dirty |-> FALSE]

\* a store file left by an earlier run: agreement "a", attempted, not yet made
EarlierRun ==
    [b \in BucketNames |->
        IF b = AGREEMENTS
        THEN [exists |-> TRUE,
              kv |-> [EmptyKV EXCEPT !["a"] =
                         MarshalAgreement(Agreement("a", "p", 1, 0, "", "", FALSE))]]
        ELSE NoBucket]

\* what the caller of op sees, whether the store d it leaves differs,
\* whether a write on id committed between the two parts of op, and whether
\* op has overwritten another writer's value with the one its lookup saw;
\* log is the warning op has written with glog.Errorf (NoLog unless set)
Return(op, id, err, val, d, raced, lost) ==
    [op |-> op, id |-> id, err |-> err, val |-> val, changed |-> (d # db),
     raced |-> raced, lost |-> lost, log |-> NoLog]

\* the store file as opened, no operation running
Opened ==
    /\ db \in {[b \in BucketNames |-> NoBucket], EarlierRun}
    /\ clock = 1
    /\ pc = [p \in Procs |-> "idle"]
    /\ local = [p \in Procs |-> IdleLocal]
    /\ last = [op |-> "init", id |-> "", err |-> NoError, val |-> <<>>,
               changed |-> FALSE, raced |-> FALSE,
               lost |-> FALSE, log |-> NoLog]
    /\ hist = [attempt |-> db[AGREEMENTS].exists, generic |-> FALSE]

Init == Opened /\ budget = MaxCalls

\* the same, with one more operation started in a behaviour
InitDeep == Opened /\ budget = MaxCalls + 1

\* ------------------------------------------------------ bolt transactions
\* b.Get(key): nil when the key is not in the bucket
Get(bkt, k) == IF k \in Keys THEN bkt.kv[k] ELSE NilBytes

\* b.Put(key, value) fails on a key longer than MaxKeySize (an empty key
\* never reaches it)
PutFails(k) == k \notin Keys

\* tx.CreateBucketIfNotExists(name), inside a write transaction
CreateBucketIfNotExists(d, name) ==
    [d EXCEPT ![name] = [exists |-> TRUE, kv |-> d[name].kv]]

\* b.Put(key, value) inside a write transaction
Put(d, name, k, bytes) ==
    [d EXCEPT ![name] = [exists |-> d[name].exists,
                         kv |-> [d[name].kv EXCEPT ![k] = bytes]]]

\* ------------------------------------------------------------------ filters
\* AFilter values: IdAFilter(id), and two other predicates a caller may pass
IdAFilter(id) == [type |-> "IdAFilter", id |-> id]
AlwaysFalse == [type |-> "AlwaysFalse", id |-> ""]
UnmadeFilter == [type |-> "Unmade", id |-> ""]

\* filterFn(a)
ApplyFilter(f, a) ==
    CASE f.type = "IdAFilter" -> a.CurrentAgreementId = f.id
      [] f.type = "AlwaysFalse" -> FALSE
      [] f.type = "Unmade" -> a.AgreementCreationTime = 0

\* a mutant of Exclude: a record is excluded only when every filter rejects
\* it (OR instead of AND)
ExcludeIfAllReject(filters, a, i, exclude) ==
    /\ Len(filters) > 0
    /\ \A j \in 1..Len(filters) : ~ApplyFilter(filters[j], a)

\* the loop over filters: exclude is set when any filter rejects a
RECURSIVE Exclude(_, _, _, _)
Exclude(filters, a, i, exclude) ==
    IF i > Len(filters) THEN exclude
    ELSE Exclude(filters, a, i + 1,
                 IF ~ApplyFilter(filters[i], a) THEN TRUE ELSE exclude)

\* b.ForEach: the keys in byte order; an undecodable value is skipped
RECURSIVE ForEach(_, _, _, _)
ForEach(bkt, filters, i, agreements) ==
    IF i > Len(KeyOrder) THEN agreements
    ELSE LET v == bkt.kv[KeyOrder[i]]
             u == Unmarshal(v)
         IN  IF v.kind = "nil" THEN ForEach(bkt, filters, i + 1, agreements)
             ELSE IF u.err THEN ForEach(bkt, filters, i + 1, agreements)
             ELSE IF ~Exclude(filters, u.a, 1, FALSE)
                  THEN ForEach(bkt, filters, i + 1, Append(agreements, u.a))
                  ELSE ForEach(bkt, filters, i + 1, agreements)

\* FindAgreements(db, filters): one read-only transaction
FindAgreements(d, filters) ==
    IF d[AGREEMENTS].exists
    THEN ForEach(d[AGREEMENTS], filters, 1, <<>>)
    ELSE <<>>

\* a mutant of FindSingleAgreementByAgreementId: the first match is returned
\* when there are several
FindFirstMatch(d, agreementid) ==
    LET agreements == FindAgreements(d, <<IdAFilter(agreementid)>>)
    IN  IF Len(agreements) = 0 THEN [err |-> NoError, val |-> <<>>]
        ELSE [err |-> NoError, val |-> <<agreements[1]>>]

\* a mutant of FindSingleAgreementByAgreementId: several matches are
\* reported as none
FindSingleOrNone(d, agreementid) ==
    LET agreements == FindAgreements(d, <<IdAFilter(agreementid)>>)
    IN  IF Len(agreements) = 1 THEN [err |-> NoError, val |-> <<agreements[1]>>]
        ELSE [err |-> NoError, val |-> <<>>]

\* FindSingleAgreementByAgreementId(db, agreementid): [err, val]
\* val is <<>> for a nil *Agreement
FindSingleAgreementByAgreementId(d, agreementid) ==
    LET agreements == FindAgreements(d, <<IdAFilter(agreementid)>>)
    IN  IF Len(agreements) > 1 THEN [err |-> AmbiguousRecord, val |-> <<>>]
        ELSE IF Len(agreements) = 0 THEN [err |-> NoError, val |-> <<>>]
        ELSE [err |-> NoError, val |-> <<agreements[1]>>]

\* ------------------------------------------------------------------ writes
\* a mutant of PersistNew: the existing entry is not looked for
PersistNewOverwrite(d, pk, bucket, record) ==
    IF pk = "" \/ bucket = "" THEN [err |-> InvalidArgument, db |-> d]
    ELSE LET d1 == CreateBucketIfNotExists(d, bucket)
             m == Marshal(record)
         IN  IF m.err THEN [err |-> SerializeFailed, db |-> d]
             ELSE IF PutFails(pk) THEN [err |-> WriteFailed, db |-> d]
             ELSE [err |-> NoError, db |-> Put(d1, bucket, pk, m.bytes)]

\* a mutant of PersistNew: an existing entry is reported as success
PersistNewSilent(d, pk, bucket, record) ==
    IF pk = "" \/ bucket = "" THEN [err |-> InvalidArgument, db |-> d]
    ELSE LET d1 == CreateBucketIfNotExists(d, bucket)
             m == Marshal(record)
         IN  IF Get(d1[bucket], pk).kind # "nil"
             THEN [err |-> NoError, db |-> d]
             ELSE IF m.err THEN [err |-> SerializeFailed, db |-> d]
             ELSE IF PutFails(pk) THEN [err |-> WriteFailed, db |-> d]
             ELSE [err |-> NoError, db |-> Put(d1, bucket, pk, m.bytes)]

\* a mutant of PersistNew: a transaction that fails keeps the bucket it
\* created
PersistNewKeepsBucket(d, pk, bucket, record) ==
    IF pk = "" \/ bucket = "" THEN [err |-> InvalidArgument, db |-> d]
    ELSE LET d1 == CreateBucketIfNotExists(d, bucket)
             m == Marshal(record)
         IN  IF Get(d1[bucket], pk).kind # "nil"
             THEN [err |-> DuplicateKey, db |-> d1]
             ELSE IF m.err THEN [err |-> SerializeFailed, db |-> d1]
             ELSE IF PutFails(pk) THEN [err |-> WriteFailed, db |-> d1]
             ELSE [err |-> NoError, db |-> Put(d1, bucket, pk, m.bytes)]

\* PersistNew(db, pk, bucket, record): [err, db]; a transaction that
\* returns an error is rolled back
PersistNew(d, pk, bucket, record) ==
    IF pk = "" \/ bucket = "" THEN [err |-> InvalidArgument, db |-> d]
    ELSE LET d1 == CreateBucketIfNotExists(d, bucket)
             m == Marshal(record)
         IN  IF Get(d1[bucket], pk).kind # "nil"
             THEN [err |-> DuplicateKey, db |-> d]
             ELSE IF m.err THEN [err |-> SerializeFailed, db |-> d]
             ELSE IF PutFails(pk) THEN [err |-> WriteFailed, db |-> d]
             ELSE [err |-> NoError, db |-> Put(d1, bucket, pk, m.bytes)]

\* a mutant of MergeUpdate: the candidate is written whole
MergeUpdateAll(mod, update) == update

\* a mutant of MergeUpdate: a string the candidate leaves empty does not
\* replace the stored one
MergeUpdateNonEmpty(mod, update) ==
    [mod EXCEPT !.AgreementCreationTime = update.AgreementCreationTime,
                !.Proposal = IF update.Proposal = "" THEN @ ELSE update.Proposal,
                !.DataVerificationURL =
                    IF update.DataVerificationURL = "" THEN @
                    ELSE update.DataVerificationURL,
                !.DisableDataVerificationChecks =
                    update.DisableDataVerificationChecks]

\* the whole-member replacement of the fields that may change
MergeUpdate(mod, update) ==
    [mod EXCEPT !.AgreementCreationTime = update.AgreementCreationTime,
                !.Proposal = update.Proposal,
                !.DataVerificationURL = update.DataVerificationURL,
                !.DisableDataVerificationChecks =
                    update.DisableDataVerificationChecks]

\* a mutant of persistUpdatedAgreement: a key that is gone is written back
\* with the candidate
persistUpdatedAgreementUpsert(d, agreementid, update) ==
    LET d1 == CreateBucketIfNotExists(d, AGREEMENTS)
        current == Get(d1[AGREEMENTS], agreementid)
        u == Unmarshal(current)
    IN  IF PutFails(agreementid) THEN [err |-> WriteFailed, db |-> d]
        ELSE IF current.kind = "nil"
        THEN [err |-> NoError,
              db |-> Put(d1, AGREEMENTS, agreementid, MarshalAgreement(update))]
        ELSE IF u.err THEN [err |-> CorruptRecord, db |-> d]
        ELSE [err |-> NoError,
              db |-> Put(d1, AGREEMENTS, agreementid,
                         MarshalAgreement(MergeUpdate(u.a, update)))]

\* persistUpdatedAgreement(db, agreementid, update): [err, db]
persistUpdatedAgreement(d, agreementid, update) ==
    LET d1 == CreateBucketIfNotExists(d, AGREEMENTS)
        current == Get(d1[AGREEMENTS], agreementid)
        u == Unmarshal(current)
    IN  IF current.kind = "nil" THEN [err |-> NotFound, db |-> d]
        ELSE IF u.err THEN [err |-> CorruptRecord, db |-> d]
        ELSE IF PutFails(agreementid) THEN [err |-> WriteFailed, db |-> d]
        ELSE [err |-> NoError,
              db |-> Put(d1, AGREEMENTS, agreementid,
                         MarshalAgreement(MergeUpdate(u.a, update)))]

\* a mutant of DeleteTx: a missing record is an error
DeleteTxAbsentFails(d, pk) ==
    IF ~d[AGREEMENTS].exists THEN [err |-> UnknownBucket, db |-> d]
    ELSE IF Get(d[AGREEMENTS], pk).kind = "nil" THEN [err |-> NotFound, db |-> d]
    ELSE [err |-> NoError, db |-> Put(d, AGREEMENTS, pk, NilBytes)]

\* a mutant of DeleteTx: the bucket is opened with CreateBucketIfNotExists
DeleteTxCreatesBucket(d, pk) ==
    LET d1 == CreateBucketIfNotExists(d, AGREEMENTS)
    IN  IF Get(d1[AGREEMENTS], pk).kind = "nil" THEN [err |-> NoError, db |-> d1]
        ELSE [err |-> NoError, db |-> Put(d1, AGREEMENTS, pk, NilBytes)]

\* a mutant of DeleteTx: deleting a record empties the bucket
DeleteTxEmptiesBucket(d, pk) ==
    IF ~d[AGREEMENTS].exists THEN [err |-> UnknownBucket, db |-> d]
    ELSE IF Get(d[AGREEMENTS], pk).kind = "nil" THEN [err |-> NoError, db |-> d]
    ELSE [err |-> NoError,
          db |-> [d EXCEPT ![AGREEMENTS] = [exists |-> TRUE, kv |-> EmptyKV]]]

\* a mutant of DeleteTx: a value that does not decode stops the deletion
DeleteTxDecodeBlocks(d, pk) ==
    IF ~d[AGREEMENTS].exists THEN [err |-> UnknownBucket, db |-> d]
    ELSE IF Get(d[AGREEMENTS], pk).kind = "nil" THEN [err |-> NoError, db |-> d]
    ELSE IF Unmarshal(Get(d[AGREEMENTS], pk)).err
    THEN [err |-> CorruptRecord, db |-> d]
    ELSE [err |-> NoError, db |-> Put(d, AGREEMENTS, pk, NilBytes)]

\* the transaction of DeleteAgreement(db, pk): [err, db]
DeleteTx(d, pk) ==
    IF ~d[AGREEMENTS].exists THEN [err |-> UnknownBucket, db |-> d]
    ELSE IF Get(d[AGREEMENTS], pk).kind = "nil" THEN [err |-> NoError, db |-> d]
    ELSE [err |-> NoError, db |-> Put(d, AGREEMENTS, pk, NilBytes)]

\* a mutant of agreement: only an empty id is rejected
agreementAnyProtocol(agreementid, agreementProto, now) ==
    IF agreementid = ""
    THEN [err |-> InvalidArgument, a |-> ZeroAgreement]
    ELSE [err |-> NoError,
          a |-> Agreement(agreementid, agreementProto, now, 0, "", "", FALSE)]

\* agreement(agreementid, agreementProto): the factory, [err, a]
agreement(agreementid, agreementProto, now) ==
    IF agreementid = "" \/ agreementProto = ""
    THEN [err |-> InvalidArgument, a |-> ZeroAgreement]
    ELSE [err |-> NoError,
          a |-> Agreement(agreementid, agreementProto, now, 0, "", "", FALSE)]

\* ---------------------------------------------------------------- transforms
\* fn func(Agreement) *Agreement: the closure of AgreementMade, and three
\* other transforms a caller of the update engine may pass
MadeTransform(proposal, url, checks) ==
    [type |-> "made", proposal |-> proposal, url |-> url, checks |-> checks]
SetProposal == [type |-> "setProposal", proposal |-> "P", url |-> "", checks |-> FALSE]
SetURL == [type |-> "setURL", proposal |-> "", url |-> "U", checks |-> FALSE]
Tamper == [type |-> "tamper", proposal |-> "T", url |-> "", checks |-> FALSE]

\* fn(*agreement)
ApplyTransform(t, a, now) ==
    CASE t.type = "made" ->
            [a EXCEPT !.AgreementCreationTime = now,
                      !.Proposal = t.proposal,
                      !.DataVerificationURL = t.url,
                      !.DisableDataVerificationChecks = t.checks]
      [] t.type = "setProposal" -> [a EXCEPT !.Proposal = t.proposal]
      [] t.type = "setURL" -> [a EXCEPT !.DataVerificationURL = t.url]
      [] t.type = "tamper" ->
            [a EXCEPT !.CurrentAgreementId = Replacement,
                      !.AgreementProtocol = "q",
                      !.AgreementInceptionTime = 0,
                      !.Proposal = t.proposal]

\* a lost update: a field that may change differs in the stored record from
\* what the update's lookup returned (another writer has set it since), and
\* the update's write has put the lookup's value back
LostUpdate(before, after, base) ==
    \/ /\ before.AgreementCreationTime # base.AgreementCreationTime
       /\ after.AgreementCreationTime = base.AgreementCreationTime
    \/ /\ before.Proposal # base.Proposal
       /\ after.Proposal = base.Proposal
    \/ /\ before.DataVerificationURL # base.DataVerificationURL
       /\ after.DataVerificationURL = base.DataVerificationURL
    \/ /\ before.DisableDataVerificationChecks # base.DisableDataVerificationChecks
       /\ after.DisableDataVerificationChecks = base.DisableDataVerificationChecks

\* the wall clock advances
Tick ==
    /\ clock < MaxClock
    /\ clock' = clock + 1
    /\ last' = Return("Tick", "", NoError, <<>>, db, FALSE, FALSE)
    /\ UNCHANGED <<db, pc, local, budget, hist>>

\* history: caller p returns (0: a caller outside Procs); the callers that are
\* between the two parts of an operation on id k see a committed write on k
Touch(p, k, committed) ==
    [q \in Procs |->
        IF q = p THEN IdleLocal
        ELSE IF committed /\ pc[q] # "idle" /\ local[q].id = k
        THEN [local[q] EXCEPT !.dirty = TRUE]
        ELSE local[q]]

\* callers are interchangeable: a new two-part operation is run by the idle
\* caller of least index
FreeCaller(p) == pc[p] = "idle" /\ \A q \in Procs : q < p => pc[q] # "idle"

\* AgreementAttempt, first part: the factory reads the clock
AgreementAttemptBegin(p, agreementid, agreementProto) ==
    /\ FreeCaller(p)
    /\ budget > 0
    /\ budget' = budget - 1
    /\ LET r == agreement(agreementid, agreementProto, clock)
       IN  IF r.err # NoError
           THEN /\ last' = Return("AgreementAttempt", agreementid, r.err, <<>>, db,
                                   FALSE, FALSE)
                /\ UNCHANGED <<pc, local>>
           ELSE /\ pc' = [pc EXCEPT ![p] = "PersistNew"]
                /\ local' = [local EXCEPT ![p] =
                       [id |-> agreementid, base |-> ZeroAgreement,
                        rec |-> r.a, made |-> FALSE, dirty |-> FALSE]]
                /\ UNCHANGED last
    /\ UNCHANGED <<db, clock, hist>>

\* AgreementAttempt, second part: PersistNew under the agreement's id
AgreementAttemptPersist(p) ==
    /\ pc[p] = "PersistNew"
    /\ LET r == PersistNew(db, local[p].rec.CurrentAgreementId, AGREEMENTS,
                           AgreementValue(local[p].rec))
       IN  /\ db' = r.db
           /\ last' = Return("AgreementAttempt", local[p].id, r.err, <<>>, r.db,
                             local[p].dirty, FALSE)
           /\ hist' = [hist EXCEPT !.attempt = hist.attempt \/ r.err = NoError]
           /\ local' = Touch(p, local[p].id, r.err = NoError)
    /\ pc' = [pc EXCEPT ![p] = "idle"]
    /\ UNCHANGED <<clock, budget>>

\* a mutant of UpdateBegin: a lookup that returns nil is reported as a
\* corrupt record when the key holds a value
UpdateBeginCorrupt(op, p, agreementid, t) ==
    /\ FreeCaller(p)
    /\ budget > 0
    /\ budget' = budget - 1
    /\ LET f == FindSingleAgreementByAgreementId(db, agreementid)
       IN  IF f.err # NoError
           THEN /\ last' = Return(op, agreementid, f.err, <<>>, db, FALSE, FALSE)
                /\ UNCHANGED <<pc, local>>
           ELSE IF f.val = <<>>
           THEN /\ last' = Return(op, agreementid,
                                   IF Get(db[AGREEMENTS], agreementid).kind = "nil"
                                   THEN NotFound ELSE CorruptRecord,
                                   <<>>, db, FALSE, FALSE)
                /\ UNCHANGED <<pc, local>>
           ELSE /\ pc' = [pc EXCEPT ![p] = "persistUpdatedAgreement"]
                /\ local' = [local EXCEPT ![p] =
                       [id |-> agreementid,
                        base |-> f.val[1],
                        rec |-> ApplyTransform(t, f.val[1], clock),
                        made |-> (op = "AgreementMade"),
                        dirty |-> FALSE]]
                /\ UNCHANGED last
    /\ UNCHANGED <<db, clock, hist>>

\* singleAgreementUpdate, first part: the lookup, then fn on the copy
UpdateBegin(op, p, agreementid, t) ==
    /\ FreeCaller(p)
    /\ budget > 0
    /\ budget' = budget - 1
    /\ LET f == FindSingleAgreementByAgreementId(db, agreementid)
       IN  IF f.err # NoError
           THEN /\ last' = Return(op, agreementid, f.err, <<>>, db, FALSE, FALSE)
                /\ UNCHANGED <<pc, local>>
           ELSE IF f.val = <<>>
           THEN /\ last' = Return(op, agreementid, NotFound, <<>>, db, FALSE, FALSE)
                /\ UNCHANGED <<pc, local>>
           ELSE /\ pc' = [pc EXCEPT ![p] = "persistUpdatedAgreement"]
                /\ local' = [local EXCEPT ![p] =
                       [id |-> agreementid,
                        base |-> f.val[1],
                        rec |-> ApplyTransform(t, f.val[1], clock),
                        made |-> (op = "AgreementMade"),
                        dirty |-> FALSE]]
                /\ UNCHANGED last
    /\ UNCHANGED <<db, clock, hist>>

\* AgreementMade(db, agreementid, proposal, url, checks), up to the write
AgreementMadeBegin(p, agreementid, proposal, url, checks) ==
    UpdateBegin("AgreementMade", p, agreementid,
                MadeTransform(proposal, url, checks))

\* singleAgreementUpdate(db, agreementid, fn) with another fn, up to the write
singleAgreementUpdateBegin(p, agreementid, t) ==
    UpdateBegin("singleAgreementUpdate", p, agreementid, t)

\* singleAgreementUpdate, second part: persistUpdatedAgreement; AgreementMade
\* returns nil instead of the candidate when the write failed
UpdatePersist(p) ==
    /\ pc[p] = "persistUpdatedAgreement"
    /\ LET r == persistUpdatedAgreement(db, local[p].id, local[p].rec)
       IN  /\ db' = r.db
           /\ last' = Return(IF local[p].made THEN "AgreementMade"
                                             ELSE "singleAgreementUpdate",
                             local[p].id, r.err,
                             IF local[p].made /\ r.err # NoError
                             THEN <<>> ELSE <<local[p].rec>>,
                             r.db, local[p].dirty,
                             /\ r.err = NoError
                             /\ LostUpdate(Get(db[AGREEMENTS], local[p].id).a,
                                           Get(r.db[AGREEMENTS], local[p].id).a,
                                           local[p].base))
           /\ local' = Touch(p, local[p].id, r.err = NoError)
    /\ pc' = [pc EXCEPT ![p] = "idle"]
    /\ UNCHANGED <<clock, budget, hist>>

\* the warning DeleteAgreement(db, pk) writes before b.Delete: none when the
\* call fails first, or when the record decodes and has an empty id
DeleteLog(d, pk) ==
    LET existing == Get(d[AGREEMENTS], pk)
        u == Unmarshal(existing)
    IN  IF pk = "" \/ ~d[AGREEMENTS].exists THEN NoLog
        ELSE IF existing.kind = "nil" THEN AbsentLog
        ELSE IF u.err THEN DeserializeLog
        ELSE IF u.a.CurrentAgreementId # "" THEN ActiveIdLog
        ELSE NoLog

\* some caller runs DeleteAgreement(db, pk): one write transaction
DeleteAgreement(pk) ==
    /\ budget > 0
    /\ budget' = budget - 1
    /\ LET r == IF pk = "" THEN [err |-> InvalidArgument, db |-> db]
                ELSE DeleteTx(db, pk)
       IN  /\ db' = r.db
           /\ last' = [Return("DeleteAgreement", pk, r.err, <<>>, r.db,
                              FALSE, FALSE)
                          EXCEPT !.log = DeleteLog(db, pk)]
           /\ local' = Touch(0, pk, r.db # db)
    /\ UNCHANGED <<clock, pc, hist>>

\* some caller runs FindSingleAgreementByAgreementId(db, agreementid)
FindSingle(agreementid) ==
    /\ budget > 0
    /\ budget' = budget - 1
    /\ LET f == FindSingleAgreementByAgreementId(db, agreementid)
       IN  last' = Return("FindSingleAgreementByAgreementId", agreementid,
                          f.err, f.val, db, FALSE, FALSE)
    /\ UNCHANGED <<db, clock, pc, local, hist>>

\* some caller runs FindAgreements(db, filters)
Scan(filters) ==
    /\ budget > 0
    /\ budget' = budget - 1
    /\ last' = Return("FindAgreements", "", NoError,
                      FindAgreements(db, filters), db, FALSE, FALSE)
    /\ UNCHANGED <<db, clock, pc, local, hist>>

\* some caller runs PersistNew(db, pk, bucket, record) on a record of its own
PersistNewGeneric(pk, bucket, record) ==
    /\ budget > 0
    /\ budget' = budget - 1
    /\ LET r == PersistNew(db, pk, bucket, record)
       IN  /\ db' = r.db
           /\ last' = Return("PersistNew", pk, r.err, <<>>, r.db, FALSE, FALSE)
           /\ hist' = [hist EXCEPT !.generic =
                          hist.generic \/ (r.err = NoError /\ bucket = AGREEMENTS)]
           /\ local' = Touch(0, pk, r.err = NoError /\ bucket = AGREEMENTS)
    /\ UNCHANGED <<clock, pc>>

\* ------------------------------------------------------------------ inputs
\* (agreementid, agreementProto) of AgreementAttempt
AttemptArgs ==
    {<<"", "p">>, <<"a", "">>, <<"a", "p">>, <<"a", "q">>,
     <<Replacement, "p">>, <<InvalidUtf8, "p">>, <<LongKey, "p">>}
\* every id a lookup is considered for
Ids == {"", "a", Replacement, InvalidUtf8}
\* agreementid of the lookups run
FindIds == {"a", Replacement}
\* pk of DeleteAgreement
DeleteIds == {"", "a", Replacement}
\* (agreementid, proposal, url, checks) of AgreementMade
MadeArgs ==
    {<<"a", "P", "U", TRUE>>, <<"a", InvalidUtf8, "V", FALSE>>,
     <<Replacement, "P", "U", TRUE>>, <<Replacement, InvalidUtf8, "V", FALSE>>}
\* (agreementid, fn) of the other callers of singleAgreementUpdate
UpdateArgs == {<<"a", SetProposal>>, <<"a", SetURL>>, <<"a", Tamper>>}
\* every filter list a scan is considered for
FilterLists ==
    {<<>>, <<IdAFilter("a")>>, <<AlwaysFalse>>, <<UnmadeFilter>>,
     <<IdAFilter("a"), AlwaysFalse>>, <<AlwaysFalse, IdAFilter("a")>>,
     <<UnmadeFilter, IdAFilter(Replacement)>>,
     <<IdAFilter(Replacement), UnmadeFilter>>}
\* filters of the scans run
ScanArgs ==
    {<<>>, <<IdAFilter("a"), AlwaysFalse>>,
     <<UnmadeFilter, IdAFilter(Replacement)>>}
\* (pk, bucket, record) of the other callers of PersistNew
GenericArgs ==
    {<<"", AGREEMENTS, ScalarValue>>,
     <<"a", "", ScalarValue>>,
     <<"a", AGREEMENTS, ScalarValue>>,
     <<"a", AGREEMENTS, ChanValue>>,
     <<"a", AGREEMENTS, AgreementValue(ZeroAgreement)>>,
     <<Replacement, AGREEMENTS,
       AgreementValue(Agreement("a", "p", 1, 0, "", "", FALSE))>>,
     <<"a", OtherBucket, ScalarValue>>}

Next ==
    \/ Tick
    \/ \E p \in Procs, x \in AttemptArgs : AgreementAttemptBegin(p, x[1], x[2])
    \/ \E p \in Procs : AgreementAttemptPersist(p)
    \/ \E p \in Procs, x \in MadeArgs :
          AgreementMadeBegin(p, x[1], x[2], x[3], x[4])
    \/ \E p \in Procs, x \in UpdateArgs : singleAgreementUpdateBegin(p, x[1], x[2])
    \/ \E p \in Procs : UpdatePersist(p)
    \/ \E pk \in DeleteIds : DeleteAgreement(pk)
    \/ \E id \in FindIds : FindSingle(id)
    \/ \E filters \in ScanArgs : Scan(filters)
    \/ \E x \in GenericArgs : PersistNewGeneric(x[1], x[2], x[3])

Spec == Init /\ [][Next]_vars

\* the behaviours with one more operation than those of Spec
SpecDeep == InitDeep /\ [][Next]_vars

\* ----------------------------------------------------------------- helpers
\* the bytes stored under key k of the agreements bucket
Stored(d, k) == Get(d[AGREEMENTS], k)

\* the step is the return of AgreementAttempt's second part by caller p
AttemptPersistStep(p) == pc[p] = "PersistNew" /\ pc'[p] = "idle"
\* the step is the return of the update's second part by caller p
UpdatePersistStep(p) == pc[p] = "persistUpdatedAgreement" /\ pc'[p] = "idle"
\* the step is a whole operation op that returned without a second part
ReturnStep(op) == budget' = budget - 1 /\ pc' = pc /\ last'.op = op

\* ---------------------------------------------------------------------- C1
\* C1: with only AgreementAttempt, AgreementMade/update, DeleteAgreement and
\* the lookups writing to the agreements bucket, every entry of the bucket
\* is stored under a key equal to its record's id field, and
\* FindSingleAgreementByAgreementId returns AmbiguousRecord for no id.
C1_KeyEqualsIdNeverAmbiguous ==
    ~hist.generic =>
        /\ \A k \in Keys :
              Stored(db, k).kind # "nil" =>
                  /\ Stored(db, k).kind = "object"
                  /\ Stored(db, k).a.CurrentAgreementId = k
        /\ \A id \in Ids :
              FindSingleAgreementByAgreementId(db, id).err # AmbiguousRecord

\* ---------------------------------------------------------------------- C2
\* C2: while a record stays under a key, its stored id, protocol and
\* inceptionTime never change; a successful update writes the stored record
\* with only creationTime, proposal, dataVerificationURL and
\* disableDataVerificationChecks taken (serialized) from the candidate,
\* whatever the transform did to the candidate's other fields.
C2_ImmutableFieldsKept ==
    [][ /\ \A k \in Keys :
              (Stored(db, k).kind = "object" /\ Stored(db', k).kind = "object") =>
                  /\ Stored(db', k).a.CurrentAgreementId =
                         Stored(db, k).a.CurrentAgreementId
                  /\ Stored(db', k).a.AgreementProtocol =
                         Stored(db, k).a.AgreementProtocol
                  /\ Stored(db', k).a.AgreementInceptionTime =
                         Stored(db, k).a.AgreementInceptionTime
        /\ \A p \in Procs :
              (UpdatePersistStep(p) /\ last'.err = NoError) =>
                  LET old == Stored(db, local[p].id).a
                      cand == local[p].rec
                  IN  /\ Stored(db', local[p].id).kind = "object"
                      /\ Stored(db', local[p].id).a =
                            Agreement(old.CurrentAgreementId,
                                      old.AgreementProtocol,
                                      old.AgreementInceptionTime,
                                      cand.AgreementCreationTime,
                                      Coerce(cand.Proposal),
                                      Coerce(cand.DataVerificationURL),
                                      cand.DisableDataVerificationChecks)
      ]_vars

\* an update whose transform changed id, protocol and inceptionTime in its
\* candidate has just been written
C2_Witness ==
    /\ last.op = "singleAgreementUpdate"
    /\ last.err = NoError
    /\ last.changed
    /\ last.val[1].AgreementInceptionTime = 0
    /\ last.val[1].CurrentAgreementId # last.id
    /\ Stored(db, last.id).kind = "object"
    /\ Stored(db, last.id).a.Proposal = "T"
    /\ Stored(db, last.id).a.CurrentAgreementId = last.id

\* ---------------------------------------------------------------------- C3
\* C3: when AgreementAttempt(id, protocol) succeeds, the lookup of id in the
\* store it leaves returns the record constructed: that id, that protocol,
\* inceptionTime the clock value read by the factory, creationTime 0 and
\* empty proposal, URL and checks flag.
C3_CreateThenFind ==
    [][ \A p \in Procs :
          (AttemptPersistStep(p) /\ last'.err = NoError /\ ~hist'.generic) =>
              /\ local[p].rec.AgreementCreationTime = 0
              /\ local[p].rec.Proposal = ""
              /\ local[p].rec.DataVerificationURL = ""
              /\ local[p].rec.DisableDataVerificationChecks = FALSE
              /\ FindSingleAgreementByAgreementId(db', local[p].id) =
                    [err |-> NoError, val |-> <<local[p].rec>>]
      ]_vars

\* ---------------------------------------------------------------------- C4
\* C4 as stated: when an entry exists under id, AgreementAttempt(id, protocol)
\* returns DuplicateKey for every protocol and the store is unchanged.
C4_Original ==
    [][ /\ \A p \in Procs :
              (AttemptPersistStep(p) /\ Stored(db, local[p].id).kind # "nil") =>
                  (last'.err = DuplicateKey /\ db' = db)
        /\ (ReturnStep("AgreementAttempt") /\ Stored(db, last'.id).kind # "nil") =>
                  (last'.err = DuplicateKey /\ db' = db)
      ]_vars

\* C4 amended: when an entry exists under id, AgreementAttempt(id, protocol)
\* returns DuplicateKey for every non-empty protocol and InvalidArgument for
\* the empty protocol, and in both cases the store is unchanged.
C4_DuplicateKeyKeepsRecord ==
    [][ /\ \A p \in Procs :
              (AttemptPersistStep(p) /\ Stored(db, local[p].id).kind # "nil") =>
                  /\ local[p].rec.AgreementProtocol # ""
                  /\ last'.err = DuplicateKey
                  /\ db' = db
        /\ (ReturnStep("AgreementAttempt") /\ Stored(db, last'.id).kind # "nil") =>
                  (last'.err = InvalidArgument /\ db' = db)
      ]_vars

\* a second attempt on the id of a record that was already made has failed
C4_Witness ==
    /\ last.op = "AgreementAttempt"
    /\ last.err = DuplicateKey
    /\ ~last.changed
    /\ Stored(db, last.id).kind = "object"
    /\ Stored(db, last.id).a.AgreementCreationTime > 0

\* ---------------------------------------------------------------------- C5
\* C5: after AgreementMade(id, P, U, C) succeeds with no other write on id
\* between its lookup and its write, the lookup of id returns a record with
\* proposal P, URL U, checks C, creationTime the (positive) clock value the
\* call read, and the id, protocol and inceptionTime stored at creation.
C5_MadeThenFind ==
    [][ \A p \in Procs :
          (/\ UpdatePersistStep(p)
           /\ local[p].made
           /\ last'.err = NoError
           /\ ~local[p].dirty
           /\ ~hist.generic) =>
              /\ local[p].rec.AgreementCreationTime > 0
              /\ FindSingleAgreementByAgreementId(db', local[p].id) =
                    [err |-> NoError, val |-> <<local[p].rec>>]
      ]_vars

\* ---------------------------------------------------------------------- C6
\* C6 as stated: in every reachable state, DeleteAgreement(id) with a
\* non-empty id under which no record exists returns success and leaves the
\* store unchanged.
C6_Original ==
    [][ (/\ ReturnStep("DeleteAgreement")
         /\ last'.id # ""
         /\ Stored(db, last'.id).kind = "nil") =>
            (last'.err = NoError /\ db' = db)
      ]_vars

\* C6 amended: in every reachable state in which the agreements bucket
\* exists, DeleteAgreement(id) with a non-empty id under which no record
\* exists returns success and leaves the store unchanged, so that a second
\* such delete right after it succeeds as well.
C6_DeleteAbsentSucceeds ==
    [][ (/\ ReturnStep("DeleteAgreement")
         /\ last'.id # ""
         /\ db[AGREEMENTS].exists
         /\ Stored(db, last'.id).kind = "nil") =>
            /\ last'.err = NoError
            /\ db' = db
            /\ DeleteTx(db', last'.id) = [err |-> NoError, db |-> db']
      ]_vars

\* a delete of an id without a record has returned success, in a bucket
\* that holds another record
C6_Witness ==
    /\ last.op = "DeleteAgreement"
    /\ last.id # ""
    /\ last.err = NoError
    /\ ~last.changed
    /\ db[AGREEMENTS].exists
    /\ Stored(db, last.id).kind = "nil"
    /\ \E k \in Keys : Stored(db, k).kind = "object"

Matching(d, id) ==
    {k \in Keys : /\ d[AGREEMENTS].exists
                  /\ Stored(d, k).kind = "object"
                  /\ Stored(d, k).a.CurrentAgreementId = id}

\* C8: FindSingleAgreementByAgreementId(id) returns nil without error when
\* no decodable stored record has id field id (also when the bucket does not
\* exist), that record when exactly one has, and AmbiguousRecord when more
\* than one has; the last case needs a record stored under a key that
\* differs from the record's id.
C8_FindByIdCases ==
    /\ \A id \in Ids :
          LET f == FindSingleAgreementByAgreementId(db, id)
              m == Matching(db, id)
          IN  /\ Cardinality(m) = 0 => f = [err |-> NoError, val |-> <<>>]
              /\ Cardinality(m) = 1 =>
                    \E k \in m : f = [err |-> NoError, val |-> <<Stored(db, k).a>>]
              /\ Cardinality(m) > 1 =>
                    /\ f = [err |-> AmbiguousRecord, val |-> <<>>]
                    /\ \E k \in m : k # id
    /\ last.op = "FindSingleAgreementByAgreementId" =>
          /\ last.err = FindSingleAgreementByAgreementId(db, last.id).err
          /\ last.val = FindSingleAgreementByAgreementId(db, last.id).val

\* a lookup has returned AmbiguousRecord
C8_Witness ==
    /\ last.op = "FindSingleAgreementByAgreementId"
    /\ last.err = AmbiguousRecord
    /\ Cardinality(Matching(db, last.id)) = 2

\* ---------------------------------------------------------------------- C9
\* C9: FindAgreements(filters) returns exactly the decodable stored records
\* that every filter of the list accepts (all of them for the empty list),
\* each once, in the key order of the store.
C9_ScanIsConjunction ==
    /\ \A filters \in FilterLists :
          LET Accepted(k) ==
                  /\ db[AGREEMENTS].exists
                  /\ Stored(db, k).kind = "object"
                  /\ \A i \in 1..Len(filters) :
                        ApplyFilter(filters[i], Stored(db, k).a)
              keys == SelectSeq(KeyOrder, Accepted)
          IN  FindAgreements(db, filters) =
                  [i \in 1..Len(keys) |-> Stored(db, keys[i]).a]
    /\ last.op = "FindAgreements" =>
          \E filters \in FilterLists : last.val = FindAgreements(db, filters)

\* a scan has returned nothing although record "a" is stored and decodable:
\* a filter list with one rejecting filter
C9_Witness ==
    /\ last.op = "FindAgreements"
    /\ last.val = <<>>
    /\ Stored(db, "a").kind = "object"
    /\ Stored(db, "a").a.CurrentAgreementId = "a"
    /\ Stored(db, Replacement).kind = "object"

\* --------------------------------------------------------------------- C10
\* C10: when DeleteAgreement(id) succeeds on an id that has a stored record,
\* the key is removed: in the store it leaves, the lookup of id returns nil,
\* an update of id fails with NotFound, and AgreementAttempt with the same
\* id succeeds and stores a fresh record (creationTime 0, empty proposal
\* and URL, checks off).
C10_DeleteRemovesKey ==
    [][ (/\ ReturnStep("DeleteAgreement")
         /\ last'.err = NoError
         /\ Stored(db, last'.id).kind # "nil"
         /\ ~hist.generic) =>
            LET id == last'.id
                f == FindSingleAgreementByAgreementId(db', id)
            IN  /\ Stored(db', id).kind = "nil"
                /\ f = [err |-> NoError, val |-> <<>>]
                /\ \/ f.val = <<>>
                   \/ f.err # NoError
                   \/ persistUpdatedAgreement(db', id, f.val[1]).err = NotFound
                /\ \A proto \in {"p", "q"} :
                      LET fresh == agreement(id, proto, clock').a
                          r == PersistNew(db', id, AGREEMENTS, AgreementValue(fresh))
                      IN  /\ r.err = NoError
                          /\ Stored(r.db, id).kind = "object"
                          /\ Stored(r.db, id).a.AgreementProtocol = proto
                          /\ Stored(r.db, id).a.AgreementInceptionTime = clock'
                          /\ Stored(r.db, id).a.AgreementCreationTime = 0
                          /\ Stored(r.db, id).a.Proposal = ""
                          /\ Stored(r.db, id).a.DataVerificationURL = ""
                          /\ ~Stored(r.db, id).a.DisableDataVerificationChecks
      ]_vars

C12_ErrorLeavesStore ==
    [][ /\ last'.err # NoError => db' = db
        /\ \A p \in Procs :
              ((AttemptPersistStep(p) \/ UpdatePersistStep(p))
                  /\ last'.err # NoError) =>
                  /\ db' = db
                  /\ \A b \in BucketNames : db'[b].exists = db[b].exists
        /\ \A op \in {"AgreementAttempt", "AgreementMade",
                      "singleAgreementUpdate", "DeleteAgreement", "PersistNew"} :
              (ReturnStep(op) /\ last'.err # NoError) =>
                  /\ db' = db
                  /\ \A b \in BucketNames : db'[b].exists = db[b].exists
      ]_vars

\* a write into a bucket that does not exist yet has failed after the bucket
\* was created in its transaction, and the bucket does not exist
C12_Witness ==
    /\ last.op \in {"AgreementAttempt", "PersistNew"}
    /\ last.err \in {WriteFailed, SerializeFailed}
    /\ ~last.changed
    /\ ~db[AGREEMENTS].exists

\* --------------------------------------------------------------------- C13
\* C13: an empty required input is rejected with InvalidArgument before a
\* transaction is opened, and the store is unchanged: AgreementAttempt with
\* an empty id or protocol (it returns from the factory, and no caller
\* reaches PersistNew with an empty id or protocol), PersistNew with an
\* empty key or bucket name, DeleteAgreement with an empty id, also when the
\* agreements bucket does not exist (InvalidArgument, not UnknownBucket).
C13_EmptyInputRejected ==
    [][ /\ \A x \in AttemptArgs :
              (x[1] = "" \/ x[2] = "") =>
                  agreement(x[1], x[2], clock).err = InvalidArgument
        /\ ReturnStep("AgreementAttempt") =>
              (last'.err = InvalidArgument /\ db' = db)
        /\ \A p \in Procs :
              pc'[p] = "PersistNew" =>
                  /\ local'[p].rec.CurrentAgreementId # ""
                  /\ local'[p].rec.AgreementProtocol # ""
        /\ \A x \in GenericArgs :
              (x[1] = "" \/ x[2] = "") =>
                  PersistNew(db, x[1], x[2], x[3]) =
                      [err |-> InvalidArgument, db |-> db]
        /\ (ReturnStep("PersistNew") /\ last'.id = "") =>
              (last'.err = InvalidArgument /\ db' = db)
        /\ (ReturnStep("DeleteAgreement") /\ last'.id = "") =>
              (last'.err = InvalidArgument /\ db' = db)
        /\ (ReturnStep("DeleteAgreement") /\ last'.err = InvalidArgument) =>
              last'.id = ""
      ]_vars

\* a delete with an empty id has been rejected on a store without the
\* agreements bucket
C13_Witness ==
    /\ last.op = "DeleteAgreement"
    /\ last.id = ""
    /\ last.err = InvalidArgument
    /\ ~db[AGREEMENTS].exists

\* --------------------------------------------------------------------- C14
\* the step is caller p passing the lookup of an update and going on to the
\* write transaction
UpdateProceedStep(p) == pc[p] = "idle" /\ pc'[p] = "persistUpdatedAgreement"

\* C14: AgreementMade (or another update) on an id that no decodable stored
\* record carries fails with NotFound, returns no agreement, creates no entry
\* under that id and leaves the store unchanged; on an id that several
\* records carry it returns the lookup's AmbiguousRecord error and writes
\* nothing; it goes on to its write transaction only when exactly one record
\* carries the id.
C14_UpdateOfAbsentFails ==
    [][ /\ \A op \in {"AgreementMade", "singleAgreementUpdate"} :
              ReturnStep(op) =>
                  LET n == Cardinality(Matching(db, last'.id))
                  IN  /\ n # 1
                      /\ n = 0 => last'.err = NotFound
                      /\ n > 1 => last'.err = AmbiguousRecord
                      /\ last'.val = <<>>
                      /\ db' = db
                      /\ Stored(db, last'.id).kind = "nil" =>
                             Stored(db', last'.id).kind = "nil"
        /\ \A p \in Procs :
              UpdateProceedStep(p) =>
                  /\ Cardinality(Matching(db, local'[p].id)) = 1
                  /\ db' = db
      ]_vars

\* an AgreementMade on an id that two stored records carry has returned the
\* lookup's error
C14_Witness ==
    /\ last.op = "AgreementMade"
    /\ last.err = AmbiguousRecord
    /\ last.val = <<>>
    /\ ~last.changed
    /\ Cardinality(Matching(db, last.id)) = 2

\* --------------------------------------------------------------------- C15
\* C15: when the entry under id is gone at the time an update's write
\* transaction runs (another writer deleted it after the update's lookup had
\* returned it, and nobody created it again), the update fails with NotFound,
\* the store is unchanged and the key is still absent, and AgreementMade
\* returns no agreement.
C15_DeletedNotResurrected ==
    [][ \A p \in Procs :
          (UpdatePersistStep(p) /\ Stored(db, local[p].id).kind = "nil") =>
              /\ last'.err = NotFound
              /\ db' = db
              /\ Stored(db', local[p].id).kind = "nil"
              /\ local[p].made => (last'.op = "AgreementMade" /\ last'.val = <<>>)
      ]_vars

\* an AgreementMade whose record was deleted between its lookup and its write
\* has failed with NotFound, and the key is absent
C15_Witness ==
    /\ last.op = "AgreementMade"
    /\ last.id = "a"
    /\ last.err = NotFound
    /\ last.raced
    /\ last.val = <<>>
    /\ db[AGREEMENTS].exists
    /\ Stored(db, "a").kind = "nil"

\* --------------------------------------------------------------------- C16
\* C16: the lookup of an update and its write transaction are two steps.
\* The lookup step writes nothing and computes the candidate from the record
\* it returned; the write step, run later, puts the candidate's four mutable
\* fields into the stored record whatever other writers have stored under
\* the id in between.  So of two concurrent updates of one id, one setting
\* only the proposal and one only the URL, both succeed and the second to
\* commit puts back the stale value of the field the first one wrote (see
\* C16_Witness for the interleaving).
C16_StaleCandidateOverwrites ==
    [][ \A p \in Procs :
          /\ UpdateProceedStep(p) =>
                LET f == FindSingleAgreementByAgreementId(db, local'[p].id)
                IN  /\ db' = db
                    /\ f.err = NoError /\ f.val # <<>>
                    /\ local'[p].base = f.val[1]
                    /\ local'[p].rec \in
                          {ApplyTransform(x[2], f.val[1], clock) : x \in UpdateArgs}
                          \cup
                          {ApplyTransform(MadeTransform(x[2], x[3], x[4]),
                                          f.val[1], clock) : x \in MadeArgs}
          /\ (UpdatePersistStep(p) /\ Stored(db, local[p].id).kind = "object") =>
                LET s == Stored(db', local[p].id).a
                    c == local[p].rec
                IN  /\ last'.err = NoError
                    /\ s.AgreementCreationTime = c.AgreementCreationTime
                    /\ s.Proposal = Coerce(c.Proposal)
                    /\ s.DataVerificationURL = Coerce(c.DataVerificationURL)
                    /\ s.DisableDataVerificationChecks =
                           c.DisableDataVerificationChecks
                    /\ last'.lost <=>
                           LostUpdate(Stored(db, local[p].id).a, s, local[p].base)
      ]_vars

\* the update that sets only the URL has committed after another writer's
\* proposal, and has put the empty proposal of its lookup back: the stored
\* record has the URL and no proposal
C16_Witness ==
    /\ last.op = "singleAgreementUpdate"
    /\ last.id = "a"
    /\ last.err = NoError
    /\ last.raced
    /\ last.lost
    /\ last.val[1].DataVerificationURL = "U"
    /\ last.val[1].Proposal = ""
    /\ Stored(db, "a").a.DataVerificationURL = "U"
    /\ Stored(db, "a").a.Proposal = ""
    /\ Stored(db, "a").a.AgreementCreationTime = 0

\* --------------------------------------------------------------------- C17
\* C17: an AgreementMade whose lookup has returned the record of its id, and
\* whose record no delete has removed since (no write on the id has
\* committed since the lookup, or the entry is there), succeeds, and the
\* record it leaves has creationTime, proposal, URL and checks flag all of
\* this one call (the strings as serialized) and the other fields as stored;
\* so after concurrent calls the four fields are those of the call that
\* committed last, never a mixture.
C17_LastMadeWins ==
    [][ \A p \in Procs :
          (/\ UpdatePersistStep(p)
           /\ local[p].made
           /\ ~hist.generic
           /\ (~local[p].dirty \/ Stored(db, local[p].id).kind # "nil")) =>
              LET s == Stored(db', local[p].id).a
                  c == local[p].rec
              IN  /\ last'.err = NoError
                  /\ Stored(db', local[p].id).kind = "object"
                  /\ s = [Stored(db, local[p].id).a EXCEPT
                            !.AgreementCreationTime = c.AgreementCreationTime,
                            !.Proposal = Coerce(c.Proposal),
                            !.DataVerificationURL = Coerce(c.DataVerificationURL),
                            !.DisableDataVerificationChecks =
                                c.DisableDataVerificationChecks]
      ]_vars

\* --------------------------------------------------------------------- C18
\* C18: when AgreementMade (or another update) returns without error, the
\* Agreement it returns equals, in all seven fields, the record stored under
\* the id by its write transaction (its strings as serialized).
C18_ReturnedEqualsStored ==
    [][ \A p \in Procs :
          (UpdatePersistStep(p) /\ last'.err = NoError) =>
              /\ Len(last'.val) = 1
              /\ Stored(db', local[p].id) = MarshalAgreement(last'.val[1])
      ]_vars

\* --------------------------------------------------------------------- C19
\* C19: with a clock that never goes back, and only AgreementAttempt, the
\* updates and DeleteAgreement writing to the agreements bucket, every
\* stored record has creationTime 0 or creationTime >= inceptionTime.
C19_CreationNotBeforeInception ==
    ~hist.generic =>
        \A k \in Keys :
            Stored(db, k).kind = "object" =>
                \/ Stored(db, k).a.AgreementCreationTime = 0
                \/ Stored(db, k).a.AgreementCreationTime >=
                       Stored(db, k).a.AgreementInceptionTime

\* --------------------------------------------------------------------- C20
\* every entry of the agreements bucket under a key other than id, and the
\* other bucket, are the same in stores d and e
SameButKey(d, e, id) ==
    /\ \A k \in Keys \ {id} : Stored(e, k) = Stored(d, k)
    /\ e[OtherBucket] = d[OtherBucket]

\* C20: an operation changes at most the entry under its own id.  A
\* successful AgreementAttempt(id) adds key id and nothing else; a successful
\* AgreementMade or other update of id replaces the value under key id, the
\* keys staying the same; a successful DeleteAgreement(id) removes key id
\* and nothing else; the lookups and scans, and the first (lookup or
\* factory) part of an operation, change nothing.
C20_OnlyOwnKeyChanges ==
    [][ /\ \A p \in Procs :
              /\ (AttemptPersistStep(p) /\ last'.err = NoError) =>
                    /\ SameButKey(db, db', local[p].id)
                    /\ Stored(db, local[p].id).kind = "nil"
                    /\ Stored(db', local[p].id).kind # "nil"
              /\ (UpdatePersistStep(p) /\ last'.err = NoError) =>
                    /\ SameButKey(db, db', local[p].id)
                    /\ Stored(db, local[p].id).kind # "nil"
                    /\ Stored(db', local[p].id).kind # "nil"
                    /\ db'[AGREEMENTS].exists = db[AGREEMENTS].exists
              /\ (pc[p] = "idle" /\ pc'[p] # "idle") => db' = db
        /\ (ReturnStep("DeleteAgreement") /\ last'.err = NoError) =>
              /\ SameButKey(db, db', last'.id)
              /\ Stored(db', last'.id).kind = "nil"
              /\ db'[AGREEMENTS].exists = db[AGREEMENTS].exists
        /\ ReturnStep("FindSingleAgreementByAgreementId") => db' = db
        /\ ReturnStep("FindAgreements") => db' = db
      ]_vars

\* a delete has removed the record under "a" from a bucket that holds
\* another record, which is still there
C20_Witness ==
    /\ last.op = "DeleteAgreement"
    /\ last.id = "a"
    /\ last.err = NoError
    /\ last.changed
    /\ Stored(db, "a").kind = "nil"
    /\ \E k \in Keys \ {"a"} : Stored(db, k).kind = "object"

\* --------------------------------------------------------------------- C21
\* the agreements bucket of store d holds, under key k, a value that
\* json.Unmarshal rejects
Undecodable(d, k) ==
    /\ d[AGREEMENTS].exists
    /\ Stored(d, k).kind # "nil"
    /\ Unmarshal(Stored(d, k)).err

\* the decodable records of store d that every filter of the list accepts,
\* in the key order of the store
Accepted(d, filters) ==
    LET Passes(k) ==
            /\ d[AGREEMENTS].exists
            /\ Stored(d, k).kind = "object"
            /\ \A i \in 1..Len(filters) : ApplyFilter(filters[i], Stored(d, k).a)
        keys == SelectSeq(KeyOrder, Passes)
    IN  [i \in 1..Len(keys) |-> Stored(d, keys[i]).a]

\* C21: an undecodable stored value does not abort a scan: FindAgreements
\* returns without error every other record that passes the filters; the
\* lookup of the key of an undecodable entry returns nil without error; and
\* AgreementAttempt with that key as id fails with DuplicateKey, the store
\* unchanged.
C21_UndecodableSkipped ==
    [][ /\ (ReturnStep("FindAgreements") /\ \E k \in Keys : Undecodable(db, k)) =>
              /\ last'.err = NoError
              /\ \E filters \in ScanArgs : last'.val = Accepted(db, filters)
        /\ (ReturnStep("FindSingleAgreementByAgreementId")
               /\ Undecodable(db, last'.id)) =>
              /\ last'.err = NoError
              /\ last'.val = <<>>
        /\ \A p \in Procs :
              (AttemptPersistStep(p) /\ Undecodable(db, local[p].id)) =>
                  /\ last'.err = DuplicateKey
                  /\ db' = db
      ]_vars

\* --------------------------------------------------------------------- C22
\* C22: DeleteAgreement(id) on a key that has a stored value returns success
\* and removes the key, every other entry staying, whatever the decode done
\* for the pre-deletion warning gives: the value does not decode (the decode
\* error is logged), it decodes with a non-empty id (the warning is logged)
\* or with an empty id (nothing is logged).
C22_DeleteIgnoresDecode ==
    [][ (ReturnStep("DeleteAgreement") /\ Stored(db, last'.id).kind # "nil") =>
           /\ last'.err = NoError
           /\ Stored(db', last'.id).kind = "nil"
           /\ SameButKey(db, db', last'.id)
           /\ db'[AGREEMENTS].exists
           /\ last'.log = (IF Undecodable(db, last'.id) THEN DeserializeLog
                           ELSE IF Stored(db, last'.id).a.CurrentAgreementId # ""
                           THEN ActiveIdLog
                           ELSE NoLog)
      ]_vars

\* a delete has logged the decode error of the value under its key, has
\* returned success and has removed the key
C22_Witness ==
    /\ last.op = "DeleteAgreement"
    /\ last.log = DeserializeLog
    /\ last.err = NoError
    /\ last.changed
    /\ Stored(db, last.id).kind = "nil"

\* --------------------------------------------------------------------- C23
\* the operations that run singleAgreementUpdate
UpdateOps == {"AgreementMade", "singleAgreementUpdate"}

\* C23 as stated: AgreementMade or another update of an id whose stored
\* value does not decode fails with CorruptRecord, the bytes under the key
\* unchanged.
C23_Original ==
    [][ /\ \A op \in UpdateOps :
              (ReturnStep(op) /\ Undecodable(db, last'.id)) =>
                  /\ last'.err = CorruptRecord
                  /\ Stored(db', last'.id) = Stored(db, last'.id)
        /\ \A p \in Procs :
              (UpdatePersistStep(p) /\ Undecodable(db, local[p].id)) =>
                  /\ last'.err = CorruptRecord
                  /\ Stored(db', local[p].id) = Stored(db, local[p].id)
      ]_vars

\* C23: AgreementMade or another update of an id whose stored value does not
\* decode fails and leaves the store unchanged.  The lookup skips the value:
\* when no record stored under another key has that id the update fails
\* with NotFound before any write transaction, and when several have it
\* fails with AmbiguousRecord; the write transaction is reached only when
\* the lookup returned a record (the one record stored under another key
\* that has the id, or the record the key held before the undecodable value
\* replaced it), and it then fails with CorruptRecord.
C23_UndecodableUpdateFails ==
    [][ /\ \A op \in UpdateOps :
              (ReturnStep(op) /\ Undecodable(db, last'.id)) =>
                  /\ db' = db
                  /\ last'.val = <<>>
                  /\ Cardinality(Matching(db, last'.id)) # 1
                  /\ last'.err = (IF Matching(db, last'.id) = {}
                                  THEN NotFound ELSE AmbiguousRecord)
        /\ \A p \in Procs :
              /\ (UpdateProceedStep(p) /\ Undecodable(db, local'[p].id)) =>
                    /\ db' = db
                    /\ \E k \in Keys \ {local'[p].id} :
                          Matching(db, local'[p].id) = {k}
              /\ (UpdatePersistStep(p) /\ Undecodable(db, local[p].id)) =>
                    /\ db' = db
                    /\ last'.err = CorruptRecord
      ]_vars

\* AgreementMade of an id whose stored value does not decode has failed with
\* NotFound, the value still there
C23_Witness ==
    /\ last.op = "AgreementMade"
    /\ last.err = NotFound
    /\ ~last.changed
    /\ Undecodable(db, last.id)
====
